---- MODULE Spec2Model ----
(***************************************************************************)
(* Model of the Island class of programs-database/island.ts: a             *)
(* sub-population of programs grouped into clusters by signature, with a   *)
(* temperature schedule, weighted sampling and prompt assembly.            *)
(*                                                                         *)
(* Objects live in a heap: `functions` maps an object identity to the      *)
(* fields of a Function (name, docString, body), so that two references to *)
(* one object are distinguishable from two equal objects.  Arrays used as  *)
(* Map keys carry their identity (ref) next to their contents (val).       *)
(* Numbers that are not integers (scores, temperature) are exact fractions.*)
(***************************************************************************)
EXTENDS Integers, Sequences, FiniteSets, TLC

\* ---------------------------------------------------------------- bounds
MaxPrograms == 2            \* registerProgram calls per behaviour of Spec
MaxPrompts == 2             \* getPrompt calls per behaviour of Spec
MaxRegistrations == 6       \* registerProgram calls per behaviour of SpecSchedule
MaxPeriod == 3              \* largest clusterSamplingTemperaturePeriod
NegPeriods == 2             \* SpecSchedule also draws periods -NegPeriods..0
MaxTemperatureInit == 2     \* largest clusterSamplingTemperatureInit
MaxFunctionsPerPrompt == 2  \* largest functionsPerPrompt

\* ---------------------------------------------------------------- inputs
\* nameOffunctionToEvolve
baseName == "f"
\* The registrations a caller makes: the body of the program, as a token
\* sequence (one calls the function under evolution recursively), and its
\* scoresPerTest as the sequence Object.values() delivers.  Two of the score
\* maps differ and reduce to the same score.
Registrations ==
    { [body |-> <<"x">>, scoresPerTest |-> <<1>>],
      [body |-> <<"f", "x">>, scoresPerTest |-> <<1, 3>>],
      [body |-> <<"x">>, scoresPerTest |-> <<2, 2>>] }
origDocString == "doc"

VARIABLES
    functionsPerPrompt,                \* constructor parameter
    clusterSamplingTemperatureInit,    \* constructor parameter (T0)
    clusterSamplingTemperaturePeriod,  \* constructor parameter (P)
    clusters,          \* Map<Signature, Cluster> in insertion order
    numPrograms,
    functions,         \* heap of Function objects, indexed by identity
    registeredBody,    \* history: body each object was registered with
    nextRef,           \* identity of the next array allocated by getSignature
    templateFunctions, \* this.template.functions, as rendered by toString()
    implementations,   \* getPrompt: sampled objects in draw order
    scores,            \* getPrompt: cluster scores in draw order
    indicesSortedByScore, \* getPrompt: positions 1..k after the sort
    sortedImplementations, \* getPrompt: the list handed to generatePrompt
    softmaxTemperature,   \* temperature handed to math.softmax by the last getPrompt
    temperatureRead,   \* outcome of the last read of the temperature getter
    result,            \* last operation and its outcome
    prompts            \* number of getPrompt calls made

vars == << functionsPerPrompt, clusterSamplingTemperatureInit,
           clusterSamplingTemperaturePeriod, clusters, numPrograms, functions,
           registeredBody, nextRef, templateFunctions, implementations, scores,
           indicesSortedByScore, sortedImplementations, softmaxTemperature, temperatureRead, result,
           prompts >>

config == << functionsPerPrompt, clusterSamplingTemperatureInit,
             clusterSamplingTemperaturePeriod >>

\* ---------------------------------------------------------------- numbers
Min(a, b) == IF a < b THEN a ELSE b

Abs(a) == IF a < 0 THEN 0 - a ELSE a

RECURSIVE SumSeq(_)
SumSeq(s) == IF s = << >> THEN 0 ELSE Head(s) + SumSeq(Tail(s))

\* An exact fraction with positive denominator.
Frac(n, d) == [kind |-> "number", num |-> n, den |-> d]
NaN == [kind |-> "NaN", num |-> 0, den |-> 1]
NoNumber == [kind |-> "none", num |-> 0, den |-> 1]

FracLess(a, b) == a.num * b.den < b.num * a.den
FracEq(a, b) == a.num * b.den = b.num * a.den

\* JavaScript's % on a non-negative dividend: the remainder of the truncated
\* division keeps the dividend's sign, whatever the divisor's sign.
JsRem(n, p) == n % Abs(p)

\* ---------------------------------------------------------------- names
getVersionedName(name, version) == name \o "_v" \o ToString(version)

improvedDocString(version) ==
    "Improved version of " \o getVersionedName(baseName, version) \o "."

\* ---------------------------------------------------------------- Island getters
\* The new array getSignature returns: Object.values(...).map(Number).
getSignature(scoresPerTest, ref) == [ref |-> ref, val |-> scoresPerTest]

temperatureValue_noWrap(T0, period, n) ==
    IF period = 0 THEN NaN
    ELSE IF period > 0 THEN Frac(T0 * (period - n), period)
    ELSE Frac(T0 * (n - period), 0 - period)

temperatureValue_offByOne(T0, period, n) ==
    IF period = 0 THEN NaN
    ELSE IF period > 0 THEN Frac(T0 * (period - (JsRem(n, period) + 1)), period)
    ELSE Frac(T0 * ((JsRem(n, period) + 1) - period), 0 - period)

\* T0 * (1 - (n % period) / period); n % 0 is NaN in JavaScript.
temperatureValue(T0, period, n) ==
    IF period = 0 THEN NaN
    ELSE IF period > 0 THEN Frac(T0 * (period - JsRem(n, period)), period)
    ELSE Frac(T0 * (JsRem(n, period) - period), 0 - period)

temperature ==
    temperatureValue(clusterSamplingTemperatureInit,
                     clusterSamplingTemperaturePeriod, numPrograms)

signatures == [i \in 1..Len(clusters) |-> clusters[i].key]

\* Map.get compares keys by identity (SameValueZero on object references).
clustersHas(signature) == \E i \in 1..Len(clusters) : clusters[i].key.ref = signature.ref

clustersGet(signature) ==
    clusters[CHOOSE i \in 1..Len(clusters) : clusters[i].key.ref = signature.ref]

clusterScores ==
    [i \in 1..Len(clusters) |->
        IF clustersHas(signatures[i]) THEN clustersGet(signatures[i]).score
        ELSE Frac(0, 1)]

\* ---------------------------------------------------------------- collaborators
\* math.reduceScore: the arithmetic mean of the values.
reduceScore(scoresPerTest) == Frac(SumSeq(scoresPerTest), Len(scoresPerTest))

\* math.softmax, reduced to which entries are positive: every entry for a
\* positive temperature, the maxima only for a temperature <= 0.
softmax(scs, temp) ==
    [i \in 1..Len(scs) |->
        IF temp.kind = "NaN" THEN "NaN"
        ELSE IF temp.num > 0 THEN "positive"
        ELSE IF \A j \in 1..Len(scs) : ~FracLess(scs[i], scs[j]) THEN "positive"
        ELSE "zero"]

probabilities == softmax(clusterScores, temperature)

\* math.getRandomWeightedIndex: any index of positive probability.
getRandomWeightedIndex(probs) == { i \in 1..Len(probs) : probs[i] = "positive" }

\* new Cluster(score, program)
NewCluster(signature, score, program) ==
    [key |-> signature, score |-> score, programs |-> << program >>]

\* Cluster.registerProgram
ClusterRegisterProgram(cluster, program) ==
    [cluster EXCEPT !.programs = Append(@, program)]

\* Cluster.sampleProgram: a reference to any member.
sampleProgram(cluster) == { cluster.programs[i] : i \in 1..Len(cluster.programs) }

\* parser.renameFunctionCalls applied to impl.toString(): a new Function with
\* the same name and docstring whose whole-identifier calls to oldName are
\* rewritten to newName.
renameFunctionCalls(impl, oldName, newName) ==
    [name |-> impl.name,
     docString |-> impl.docString,
     body |-> [t \in 1..Len(impl.body) |->
                 IF impl.body[t] = oldName THEN newName ELSE impl.body[t]]]

\* ---------------------------------------------------------------- sort
\* The comparator of getPrompt's sort, (a, b) => scores[a] - scores[b], by sign.
compareByScore_descending(scs, a, b) ==
    IF FracLess(scs[b], scs[a]) THEN -1
    ELSE IF FracLess(scs[a], scs[b]) THEN 1
    ELSE 0

compareByScore(scs, a, b) ==
    IF FracLess(scs[a], scs[b]) THEN -1
    ELSE IF FracLess(scs[b], scs[a]) THEN 1
    ELSE 0

\* Array.prototype.sort is stable: an element is placed after every element
\* that does not compare greater than it.
RECURSIVE sortInsert(_, _, _)
sortInsert(sorted, x, scs) ==
    IF sorted = << >> THEN << x >>
    ELSE IF compareByScore(scs, Head(sorted), x) > 0 THEN << x >> \o sorted
    ELSE << Head(sorted) >> \o sortInsert(Tail(sorted), x, scs)

RECURSIVE sortFrom(_, _, _)
sortFrom(sorted, rest, scs) ==
    IF rest = << >> THEN sorted
    ELSE sortFrom(sortInsert(sorted, Head(rest), scs), Tail(rest), scs)

\* Array.from({length: scores.length}, (_, i) => i).sort(...)
sortIndices(scs) == sortFrom(<< >>, [i \in 1..Len(scs) |-> i], scs)

\* ---------------------------------------------------------------- generatePrompt
renameImplementation_sameVersion(heap, impl, i) ==
    LET named == [heap EXCEPT ![impl].name = getVersionedName(baseName, i)]
    IN  IF i > 0
        THEN [named EXCEPT ![impl].docString = improvedDocString(i)]
        ELSE named

\* The forEach body before the call rewrite: the object itself is renamed, and
\* its docstring overwritten for every version after _v0.
renameImplementation(heap, impl, i) ==
    LET named == [heap EXCEPT ![impl].name = getVersionedName(baseName, i)]
    IN  IF i > 0
        THEN [named EXCEPT ![impl].docString = improvedDocString(i - 1)]
        ELSE named

\* implementations.forEach: position pos of the sequence is version pos - 1.
\* The local `impl` is rebound to the function renameFunctionCalls returns,
\* and that new function is what versionedFunctions receives.
RECURSIVE forEachImplementation(_, _, _, _)
forEachImplementation(heap, versionedFunctions, impls, pos) ==
    IF pos > Len(impls) THEN [heap |-> heap, versionedFunctions |-> versionedFunctions]
    ELSE LET impl == impls[pos]
             renamed == renameImplementation(heap, impl, pos - 1)
             rewritten == renameFunctionCalls(renamed[impl], baseName, renamed[impl].name)
         IN  forEachImplementation(renamed, Append(versionedFunctions, rewritten),
                                   impls, pos + 1)

\* The header is implementations[implementations.length - 1] itself, mutated
\* in place; on an empty list that element is undefined and the first
\* assignment to it throws a TypeError.
generatePrompt(heap, impls) ==
    LET loop == forEachImplementation(heap, << >>, impls, 1)
        nextVersion == Len(impls)
    IN  IF nextVersion = 0
        THEN [status |-> "TypeError", heap |-> loop.heap, versionedFunctions |-> << >>]
        ELSE LET header == impls[nextVersion]
                 mutated == [loop.heap EXCEPT
                               ![header].name = getVersionedName(baseName, nextVersion),
                               ![header].body = << >>,
                               ![header].docString = improvedDocString(nextVersion - 1)]
             IN  [status |-> "ok", heap |-> mutated,
                  versionedFunctions |-> Append(loop.versionedFunctions, mutated[header])]

\* ---------------------------------------------------------------- getPrompt
versionGenerated_noIncrement(sortedImpls) == Len(sortedImpls)

versionGenerated(sortedImpls) == Len(sortedImpls) + 1

NoResult == [op |-> "none", status |-> "none", version |-> 0]

\* The drawn signatures are keys of the map, so clusters.get finds each of
\* them and no draw is skipped.  A call that throws leaves the template as
\* it was.
getPrompt ==
    /\ prompts < MaxPrompts
    /\ prompts' = prompts + 1
    /\ \E sigs \in { signatures } : \E probs \in { probabilities } :
       \E k \in { Min(Len(sigs), functionsPerPrompt) } :
       \* one draw: an index, and the member its cluster's sampleProgram returns
       \E draws \in { { d \in getRandomWeightedIndex(probs) \X (1..Len(functions)) :
                           d[2] \in sampleProgram(clustersGet(sigs[d[1]])) } } :
       \E drawn \in [1..k -> draws] :
       \E programs \in { [j \in 1..k |-> drawn[j][2]] } :
       \E drawnScores \in { [j \in 1..k |-> clustersGet(sigs[drawn[j][1]]).score] } :
       \E sortedIdx \in { sortIndices(drawnScores) } :
       \E sortedImpls \in { [j \in 1..Len(sortedIdx) |-> programs[sortedIdx[j]]] } :
       \E prompt \in { generatePrompt(functions, sortedImpls) } :
          /\ implementations' = programs
          /\ scores' = drawnScores
          /\ indicesSortedByScore' = sortedIdx
          /\ sortedImplementations' = sortedImpls
          /\ softmaxTemperature' = temperature
          /\ functions' = prompt.heap
          /\ templateFunctions' =
                IF prompt.status = "ok" THEN prompt.versionedFunctions
                ELSE templateFunctions
          /\ result' = [op |-> "getPrompt", status |-> prompt.status,
                        version |-> IF prompt.status = "ok"
                                    THEN versionGenerated(sortedImpls)
                                    ELSE 0]
    /\ UNCHANGED << config, clusters, numPrograms, registeredBody, nextRef,
                    temperatureRead >>

\* ---------------------------------------------------------------- registerProgram
registerProgram_countAppendOnly(body, scoresPerTest) ==
    LET signature == getSignature(scoresPerTest, nextRef)
        program == Len(functions) + 1
    IN  /\ functions' = Append(functions,
                [name |-> baseName, docString |-> origDocString, body |-> body])
        /\ registeredBody' = Append(registeredBody, body)
        /\ nextRef' = nextRef + 1
        /\ IF ~clustersHas(signature)
           THEN /\ clusters' = Append(clusters,
                       NewCluster(signature, reduceScore(scoresPerTest), program))
                /\ numPrograms' = numPrograms
           ELSE /\ clusters' = [i \in 1..Len(clusters) |->
                       IF clusters[i].key.ref = signature.ref
                       THEN ClusterRegisterProgram(clusters[i], program)
                       ELSE clusters[i]]
                /\ numPrograms' = numPrograms + 1
        /\ result' = [op |-> "registerProgram", status |-> "ok", version |-> 0]
        /\ implementations' = << >>
        /\ scores' = << >>
        /\ indicesSortedByScore' = << >>
        /\ sortedImplementations' = << >>
        /\ UNCHANGED << config, templateFunctions, softmaxTemperature, temperatureRead,
                        prompts >>

\* The caller passes a fresh Function object with the given body.
registerProgram(body, scoresPerTest) ==
    LET signature == getSignature(scoresPerTest, nextRef)
        program == Len(functions) + 1
    IN  /\ functions' = Append(functions,
                [name |-> baseName, docString |-> origDocString, body |-> body])
        /\ registeredBody' = Append(registeredBody, body)
        /\ nextRef' = nextRef + 1
        /\ IF ~clustersHas(signature)
           THEN clusters' = Append(clusters,
                       NewCluster(signature, reduceScore(scoresPerTest), program))
           ELSE clusters' = [i \in 1..Len(clusters) |->
                       IF clusters[i].key.ref = signature.ref
                       THEN ClusterRegisterProgram(clusters[i], program)
                       ELSE clusters[i]]
        /\ numPrograms' = numPrograms + 1
        /\ result' = [op |-> "registerProgram", status |-> "ok", version |-> 0]
        /\ implementations' = << >>
        /\ scores' = << >>
        /\ indicesSortedByScore' = << >>
        /\ sortedImplementations' = << >>
        /\ UNCHANGED << config, templateFunctions, softmaxTemperature, temperatureRead,
                        prompts >>

Register ==
    /\ numPrograms < MaxPrograms
    /\ \E r \in Registrations : registerProgram(r.body, r.scoresPerTest)

\* The registrations of SpecSchedule: the schedule reads numPrograms alone.
RegisterOne ==
    /\ numPrograms < MaxRegistrations
    /\ registerProgram(<<"x">>, <<1>>)

\* A read of the temperature getter: it returns a number, never throws.
ReadTemperature ==
    /\ temperatureRead' = temperature
    /\ result' = [op |-> "temperature", status |-> "ok", version |-> 0]
    /\ UNCHANGED << config, clusters, numPrograms, functions, registeredBody, nextRef,
                    templateFunctions, implementations, scores, indicesSortedByScore,
                    sortedImplementations,
                    softmaxTemperature, prompts >>

\* A read of the probabilities getter: math.softmax(this.scores, this.temperature).
ReadProbabilities ==
    /\ softmaxTemperature' = temperature
    /\ result' = [op |-> "probabilities", status |-> "ok", version |-> 0]
    /\ UNCHANGED << config, clusters, numPrograms, functions, registeredBody, nextRef,
                    templateFunctions, implementations, scores, indicesSortedByScore,
                    sortedImplementations,
                    temperatureRead, prompts >>

\* ---------------------------------------------------------------- specifications
\* A fresh Island: the constructor's defaults for clusters and numPrograms.
Fresh ==
    /\ clusters = << >>
    /\ numPrograms = 0
    /\ functions = << >>
    /\ registeredBody = << >>
    /\ nextRef = 1
    /\ templateFunctions = << >>
    /\ implementations = << >>
    /\ scores = << >>
    /\ indicesSortedByScore = << >>
    /\ sortedImplementations = << >>
    /\ softmaxTemperature = NoNumber
    /\ temperatureRead = NoNumber
    /\ result = NoResult
    /\ prompts = 0

\* Islands with a well-formed temperature schedule.  What getPrompt draws
\* does not depend on a positive temperature (every cluster keeps a positive
\* probability), so one schedule stands for all of them here.
Init ==
    /\ functionsPerPrompt \in 0..MaxFunctionsPerPrompt
    /\ clusterSamplingTemperatureInit = MaxTemperatureInit
    /\ clusterSamplingTemperaturePeriod = MaxPeriod
    /\ Fresh

Next == Register \/ getPrompt

Spec == Init /\ [][Next]_vars

\* Islands with any period, for the temperature schedule.
InitSchedule ==
    /\ functionsPerPrompt = MaxFunctionsPerPrompt
    /\ clusterSamplingTemperatureInit \in 1..MaxTemperatureInit
    /\ clusterSamplingTemperaturePeriod \in (0 - NegPeriods)..MaxPeriod
    /\ Fresh

NextSchedule == RegisterOne \/ ReadTemperature \/ ReadProbabilities

SpecSchedule == InitSchedule /\ [][NextSchedule]_vars

\* ---------------------------------------------------------------- claims
RECURSIVE SumMembers(_)
SumMembers(cs) ==
    IF cs = << >> THEN 0 ELSE Len(Head(cs).programs) + SumMembers(Tail(cs))

IsGetPrompt == result.op = "getPrompt"

\* C1: the clusters map holds exactly one entry per distinct signature value:
\* no two clusters are keyed by signatures with equal contents, so that two
\* registrations of one scoresPerTest share a cluster of two members.
C1_OneClusterPerSignature ==
    \A i, j \in 1..Len(clusters) :
        clusters[i].key.val = clusters[j].key.val => i = j

\* C2: numPrograms always equals the sum of the clusters' member counts;
\* every registerProgram adds exactly 1 to it and getPrompt leaves it alone.
C2_NumProgramsCountsMembers ==
    /\ [](numPrograms = SumMembers(clusters))
    /\ [][ /\ result'.op = "registerProgram" => numPrograms' = numPrograms + 1
           /\ result'.op = "getPrompt" => numPrograms' = numPrograms ]_vars

C2_Witness ==
    /\ IsGetPrompt
    /\ numPrograms = 2
    /\ SumMembers(clusters) = 2

\* C3: getPrompt on an Island without clusters ends in the explicit
\* "no programs available" error.
C3_EmptyIslandReportsNoPrograms ==
    (IsGetPrompt /\ Len(clusters) = 0) => result.status = "NoProgramsError"

\* C4: with a period <= 0 a read of temperature reports a configuration
\* error; it never returns a value.
C4_NonPositivePeriodIsRejected ==
    clusterSamplingTemperaturePeriod <= 0 => temperatureRead.kind \in {"none", "error"}

\* C5 as stated: with at least one cluster, getPrompt returns
\* newVersionNumber = min(functionsPerPrompt, number of clusters) + 1.
C5_VersionIsKPlusOne ==
    (IsGetPrompt /\ Len(clusters) >= 1) =>
        /\ result.status = "ok"
        /\ result.version = Min(functionsPerPrompt, Len(clusters)) + 1

\* C5 as amended: with at least one cluster and functionsPerPrompt >= 1,
\* getPrompt returns newVersionNumber = min(functionsPerPrompt, number of
\* clusters) + 1, whatever the draws; with functionsPerPrompt = 2 and two
\* registrations it is 3.
C5_VersionIsKPlusOneWhenSampling ==
    (IsGetPrompt /\ Len(clusters) >= 1 /\ functionsPerPrompt >= 1) =>
        /\ result.status = "ok"
        /\ result.version = Min(functionsPerPrompt, Len(clusters)) + 1
        /\ (functionsPerPrompt = 2 /\ Len(clusters) = 2) => result.version = 3

\* Both draws picked the same cluster of an Island with two clusters of
\* different signatures.
C5_Witness ==
    /\ IsGetPrompt
    /\ functionsPerPrompt = 2
    /\ Len(clusters) = 2
    /\ clusters[1].key.val # clusters[2].key.val
    /\ Len(implementations) = 2
    /\ implementations[1] = implementations[2]
    /\ result.version = 3

\* C6: the list handed to generatePrompt is the sampled (implementation,
\* score) pairs rearranged by a permutation, in non-decreasing order of score,
\* pairs of equal score in their draw order.
C6_SortedStable ==
    IsGetPrompt =>
        LET n == Len(implementations)
            idx == indicesSortedByScore
        IN  /\ Len(scores) = n
            /\ Len(idx) = n
            /\ Len(sortedImplementations) = n
            /\ { idx[i] : i \in 1..n } = 1..n
            /\ \A i \in 1..n : sortedImplementations[i] = implementations[idx[i]]
            /\ \A i, j \in 1..n :
                  i < j =>
                     /\ ~FracLess(scores[idx[j]], scores[idx[i]])
                     /\ FracEq(scores[idx[i]], scores[idx[j]]) => idx[i] < idx[j]

\* The draws came in descending order of score and the sort exchanged them.
C6_Witness ==
    /\ IsGetPrompt
    /\ Len(scores) = 2
    /\ FracLess(scores[2], scores[1])
    /\ indicesSortedByScore = << 2, 1 >>

\* The parts of C7 that do not concern the bodies of functions 0..n-1: n+1
\* functions, names <baseName>_v<i>, docstrings after _v0, and the header.
C7_Shape(fs, n) ==
    /\ Len(fs) = n + 1
    /\ \A i \in 0..(n - 1) :
          /\ fs[i + 1].name = getVersionedName(baseName, i)
          /\ i > 0 => fs[i + 1].docString = improvedDocString(i - 1)
    /\ fs[n + 1].name = getVersionedName(baseName, n)
    /\ fs[n + 1].body = << >>
    /\ fs[n + 1].docString = improvedDocString(n - 1)

\* A getPrompt call that reached generatePrompt with n >= 1 implementations.
C7_Step ==
    /\ prompts' = prompts + 1
    /\ result'.status = "ok"
    /\ Len(sortedImplementations') >= 1

\* C7 as stated: generatePrompt on n >= 1 implementations installs n+1
\* functions of the stated names, docstrings and header, and the bodies of
\* functions 0..n-1 are the bodies the sampled implementations had.
C7_InstalledFunctions ==
    [][ C7_Step =>
          LET n == Len(sortedImplementations')
          IN  /\ C7_Shape(templateFunctions', n)
              /\ \A i \in 0..(n - 1) :
                    templateFunctions'[i + 1].body =
                        functions[sortedImplementations'[i + 1]].body ]_vars

\* C7 as amended: the same, the body of function i being the sampled
\* implementation's body in which every call of <baseName> reads
\* <baseName>_v<i>.
C7_InstalledFunctionsRenamed ==
    [][ C7_Step =>
          LET n == Len(sortedImplementations')
          IN  /\ C7_Shape(templateFunctions', n)
              /\ \A i \in 0..(n - 1) :
                    LET sampled == functions[sortedImplementations'[i + 1]].body
                        installed == templateFunctions'[i + 1].body
                    IN  /\ Len(installed) = Len(sampled)
                        /\ \A t \in 1..Len(sampled) :
                              installed[t] = IF sampled[t] = baseName
                                             THEN getVersionedName(baseName, i)
                                             ELSE sampled[t] ]_vars

\* The same stored program was drawn twice; three functions were installed, and
\* the second is a recursive body with its calls renamed.
C7_Witness ==
    /\ IsGetPrompt
    /\ Len(sortedImplementations) = 2
    /\ sortedImplementations[1] = sortedImplementations[2]
    /\ Len(templateFunctions) = 3
    /\ templateFunctions[2].body = << "f_v1", "x" >>

\* C8: for a period P > 0 the temperature is T0 * (1 - (numPrograms mod P) / P):
\* T0 at numPrograms = 0 and again at numPrograms = P, and strictly smaller
\* after each registration that does not reach a multiple of P.
C8_Sawtooth ==
    /\ [](clusterSamplingTemperaturePeriod >= 1 =>
            LET T0 == clusterSamplingTemperatureInit
                P == clusterSamplingTemperaturePeriod
            IN  /\ temperature.kind = "number"
                /\ temperature.num * P =
                      T0 * (P - (numPrograms % P)) * temperature.den
                /\ numPrograms \in {0, P} => FracEq(temperature, Frac(T0, 1)))
    /\ [][ ( /\ clusterSamplingTemperaturePeriod >= 1
             /\ numPrograms' = numPrograms + 1
             /\ numPrograms' % clusterSamplingTemperaturePeriod # 0 )
           => FracLess(temperature', temperature) ]_vars

\* The schedule wrapped: numPrograms reached the period and the getter
\* returned T0 again.
C8_Witness ==
    /\ clusterSamplingTemperaturePeriod > 1
    /\ numPrograms = clusterSamplingTemperaturePeriod
    /\ result.op = "temperature"
    /\ temperatureRead = Frac(clusterSamplingTemperatureInit
                                 * clusterSamplingTemperaturePeriod,
                              clusterSamplingTemperaturePeriod)

\* C9: no program stored in a cluster is altered by prompt assembly: every
\* member keeps the body it was registered with.
C9_StoredBodiesKept ==
    \A c \in 1..Len(clusters) : \A m \in 1..Len(clusters[c].programs) :
        functions[clusters[c].programs[m]].body = registeredBody[clusters[c].programs[m]]

\* C10: with T0 > 0 and a period >= 1 the temperature stays in (0, T0], and
\* the probabilities getter never hands softmax a temperature <= 0.
C10_TemperaturePositive ==
    (clusterSamplingTemperatureInit > 0 /\ clusterSamplingTemperaturePeriod >= 1) =>
        /\ temperature.kind = "number"
        /\ temperature.num > 0
        /\ ~FracLess(Frac(clusterSamplingTemperatureInit, 1), temperature)
        /\ softmaxTemperature.kind # "none" =>
              /\ softmaxTemperature.kind = "number"
              /\ softmaxTemperature.num > 0

\* probabilities was read at the lowest point of the schedule, one
\* registration short of a multiple of the period.
C10_Witness ==
    /\ clusterSamplingTemperaturePeriod > 1
    /\ numPrograms % clusterSamplingTemperaturePeriod
          = clusterSamplingTemperaturePeriod - 1
    /\ result.op = "probabilities"
    /\ softmaxTemperature = temperature

====
